---- MODULE Spec2Model ----
(***************************************************************************)
(* Pipeline orchestration, escalation gates and asynchronous interaction   *)
(* logging of the dual-mode banking assistant.                             *)
(*                                                                         *)
(* Numbers: confidence scores and thresholds are held in thousandths       *)
(* (0.68 is 680).  Texts: an escalation reason is a sequence of word       *)
(* tokens; a query is a sequence of characters, SP being whitespace.       *)
(***************************************************************************)
EXTENDS Integers, Sequences, FiniteSets, TLC

\* ------------------------------------------------------------------ bounds
MaxTurns == 2
MaxQueryLen == 2
MaxChunks == 1
MaxSyncCalls == 1
MaxLoopCalls == 1
MaxHistory == 4
MaxTextLen == 3
MaxSessions == 2

\* ------------------------------------------------------- program constants
max_length == 2000
DefaultThreshold == 680
BypassConfidence == 950
max_retries == 3

\* A second configured value of CONFIDENCE_THRESHOLD, above the bypass score.
HighThreshold == BypassConfidence + 10
Thresholds == {DefaultThreshold, HighThreshold}

\* ------------------------------------------------------------ value spaces
None == "None"
Missing == "<missing>"
NoScore == 0 - 1
SP == " "
Chars == {SP, "a"}

ValidModes == {"customer", "banker"}
ModeInputs == ValidModes \cup {"auditor"}

INTENT_CATEGORIES == {"automatable", "sensitive", "human_only"}
DeterministicIntents == {"greeting", "unknown", "general_conversation"}
IntentNames == DeterministicIntents \cup {"fee_inquiry"}

ESCALATION_TRIGGERS ==
    {"human_only", "low_confidence", "insufficient_evidence", "conflicting_evidence",
     "account_specific", "security_fraud", "financial_advice", "legal_hardship",
     "emotional_distress", "repeated_misunderstanding", "explicit_human_request"}

ErrTexts == {"boom"}

\* A query whose one piece is a whole word, one the security patterns look for.
FraudQuery == <<"fraud">>
Queries == UNION {[1..n -> Chars] : n \in 0..MaxQueryLen} \cup {FraudQuery}

\* ----------------------------------------------------------- reason tokens
Tok(w) == [w |-> w, n |-> NoScore]
Num(n) == [w |-> "#", n |-> n]
NoReason == <<>>

\* f"{x:.2f}": thousandths to hundredths (no value of the model is an exact tie).
Format2(x) == (x + 5) \div 10

\* ---------------------------------------------------------------- validator
RECURSIVE LStrip(_)
LStrip(s) == IF s # <<>> /\ Head(s) = SP THEN LStrip(Tail(s)) ELSE s

RECURSIVE RStrip(_)
RStrip(s) == IF s # <<>> /\ s[Len(s)] = SP THEN RStrip(SubSeq(s, 1, Len(s) - 1)) ELSE s

sanitize_user_query(query) ==
    IF query = <<>> THEN <<>>
    ELSE LET stripped == RStrip(LStrip(query))
         IN  IF Len(stripped) > max_length THEN SubSeq(stripped, 1, max_length)
             ELSE stripped

\* The error message of the validation, "" when the classification is valid.
validate_intent_classification(intent_data, mode) ==
    IF intent_data.intent_name = Missing THEN "Missing required field: intent_name"
    ELSE IF intent_data.intent_category = Missing
         THEN "Missing required field: intent_category"
    ELSE IF intent_data.classification_reason = Missing
         THEN "Missing required field: classification_reason"
    ELSE IF intent_data.intent_category \notin INTENT_CATEGORIES
         THEN "Invalid intent_category"
    ELSE IF intent_data.classification_reason = ""
         THEN "classification_reason must be a non-empty string"
    ELSE ""

validate_confidence_score(score) ==
    IF score = NoScore THEN FALSE ELSE 0 <= score /\ score <= 1000

\* ------------------------------------------------------- intent classifier
NoneIntent ==
    [intent_name |-> None, intent_category |-> None,
     classification_reason |-> None, assistant_mode |-> None]

\* What the judge call and the JSON parse of its content can come to.
JudgeDicts ==
    [intent_name : IntentNames \cup {Missing},
     intent_category : INTENT_CATEGORIES \cup {"bogus", Missing},
     classification_reason : {"because", "", Missing}]

NoDict ==
    [intent_name |-> Missing, intent_category |-> Missing,
     classification_reason |-> Missing]

ClassifierJudgeOutcomes ==
    [kind : {"timeout", "exception", "no_response", "empty_content",
             "unparsable", "empty_dict", "scalar"},
     data : {NoDict}]
    \cup [kind : {"dict"}, data : JudgeDicts]

\* classify raises instead of returning: a JSON scalar (a number) passes the
\* truthiness test and the validator's "field not in intent_data" raises.
classify_raises(user_query, assistant_mode, judge) ==
    /\ sanitize_user_query(user_query) # <<>>
    /\ assistant_mode \in ValidModes
    /\ judge.kind = "scalar"

classify(user_query, assistant_mode, judge) ==
    IF sanitize_user_query(user_query) = <<>> THEN NoneIntent
    ELSE IF assistant_mode \notin ValidModes THEN NoneIntent
    ELSE IF judge.kind \in {"timeout", "exception"} THEN NoneIntent
    ELSE IF judge.kind = "no_response" THEN NoneIntent
    ELSE IF judge.kind = "empty_content" THEN NoneIntent
    ELSE IF judge.kind \in {"unparsable", "empty_dict"} THEN NoneIntent
    ELSE LET error == validate_intent_classification(judge.data, assistant_mode)
         IN  IF error # ""
             THEN [intent_name |-> "unknown", intent_category |-> "human_only",
                   classification_reason |-> "Classification validation failed",
                   assistant_mode |-> assistant_mode]
             ELSE [intent_name |-> judge.data.intent_name,
                   intent_category |-> judge.data.intent_category,
                   classification_reason |-> judge.data.classification_reason,
                   assistant_mode |-> assistant_mode]

\* ------------------------------------------------------------------ router
Absent == 0 - 1

route(intent_category, intent_name, assistant_mode) ==
    LET category == IF intent_category \notin {"automatable", "sensitive", "human_only"}
                    THEN "human_only" ELSE intent_category
    IN  IF category = "human_only"
        THEN [route |-> "escalate", skip_to_step |-> 6, next_step |-> 6]
        ELSE IF category \in {"automatable", "sensitive"}
        THEN [route |-> "continue", skip_to_step |-> Absent, next_step |-> 3]
        ELSE [route |-> "escalate", skip_to_step |-> 6, next_step |-> 6]

NoRouting == [route |-> None, skip_to_step |-> Absent, next_step |-> Absent]

\* Router.should_escalate and Router.get_next_step
should_escalate(intent_category) == intent_category = "human_only"
get_next_step(intent_category) == IF intent_category = "human_only" THEN 6 ELSE 3

\* ------------------------------------------------------ response generator
NoText == [kind |-> None, variant |-> None]
NoResponse == [response_text |-> NoText, has_synthetic_content |-> FALSE]
Response(kind, variant) ==
    [response_text |-> [kind |-> kind, variant |-> variant],
     has_synthetic_content |-> FALSE]

GeneratorJudgeOutcomes ==
    {"timeout", "exception", "no_response", "empty_content", "text"}
GeneratorJudgeRuns == [1..max_retries -> GeneratorJudgeOutcomes]

CannedVariant(assistant_mode) ==
    IF assistant_mode \in ValidModes THEN assistant_mode ELSE "customer"

RECURSIVE generate_attempt(_, _)
generate_attempt(judge, attempt) ==
    IF attempt >= max_retries THEN NoResponse
    ELSE LET out == judge[attempt + 1]
         IN  IF out = "text" THEN Response("generated", "judge")
             ELSE IF out = "empty_content"
                  THEN IF attempt < max_retries - 1
                       THEN generate_attempt(judge, attempt + 1)
                       ELSE NoResponse
             ELSE IF out \in {"timeout", "exception"} /\ attempt = max_retries - 1
                  THEN NoResponse
             ELSE generate_attempt(judge, attempt + 1)

generate(retrieved_chunks, assistant_mode, intent_name, judge) ==
    IF intent_name = "greeting"
    THEN Response("greeting", CannedVariant(assistant_mode))
    ELSE IF intent_name = "unknown"
    THEN Response("guidance", CannedVariant(assistant_mode))
    ELSE IF retrieved_chunks = 0
    THEN IF intent_name = "general_conversation"
         THEN Response("here_to_help", "any")
         ELSE Response("not_enough_information", "any")
    ELSE generate_attempt(judge, 0)

\* --------------------------------------------------------------- citations
\* A response text is a sequence of pieces: "w" is text without a marker, any
\* other piece d stands for the marker [d], d a string of digits.
MarkerDigits == {"1", "01", "2"}
TextPieces == MarkerDigits \cup {"w"}

\* int(m)
IntOf(digits) == IF digits = "2" THEN 2 ELSE 1

\* re.findall(r'\[(\d+)\]', response_text)
findall_markers(response_text) ==
    SelectSeq(response_text, LAMBDA piece : piece \in MarkerDigits)

RECURSIVE SortedSeq(_)
SortedSeq(S) ==
    IF S = {} THEN <<>>
    ELSE LET least == CHOOSE x \in S : \A y \in S : x <= y
         IN  <<least>> \o SortedSeq(S \ {least})

\* Variant: the numbers of the matches in text order, repeats kept.
numbers_of_matches(response_text) ==
    [i \in DOMAIN findall_markers(response_text) |-> IntOf(findall_markers(response_text)[i])]

\* sorted(set([int(m) for m in matches]))
citation_numbers(response_text) ==
    SortedSeq({IntOf(findall_markers(response_text)[i]) : i \in DOMAIN findall_markers(response_text)})

SourceN(num) == [number |-> num, source |-> "Source n", url |-> ""]

\* citation_map: the last supplied citation with a truthy number wins.
HasCitation(retrieval_citations, num) ==
    \E i \in DOMAIN retrieval_citations : retrieval_citations[i].number = num /\ num # 0
citation_map(retrieval_citations, num) ==
    LET last == CHOOSE i \in DOMAIN retrieval_citations :
                    /\ retrieval_citations[i].number = num
                    /\ \A j \in DOMAIN retrieval_citations :
                          retrieval_citations[j].number = num => j <= i
    IN  retrieval_citations[last]

\* retrieval_citations is <<>> when None or empty.
extract_citations(response_text, retrieval_citations) ==
    LET nums == citation_numbers(response_text)
    IN  [i \in DOMAIN nums |->
            IF retrieval_citations # <<>> /\ HasCitation(retrieval_citations, nums[i])
            THEN citation_map(retrieval_citations, nums[i])
            ELSE SourceN(nums[i])]

\* ------------------------------------------------------- confidence scorer
RawScores == {0 - 500, 0, 674, 680, 957, 960, 1500}
\* Numbers the judge writes outside a JSON "confidence" field.
TextScores == {0 - 500, 957, 1500}

\* One chat_completion call: it times out, raises, returns None, or returns a
\* content: "value" a JSON object whose confidence is the number raw, "nan" one
\* whose confidence is NaN, "text" a content without a usable JSON confidence
\* in which the number raw is written, "unparsable" one with neither.
ScorerJudgeOutcomes ==
    [kind : {"timeout", "exception", "no_response", "unparsable", "nan"}, raw : {0}]
    \cup [kind : {"value"}, raw : RawScores]
    \cup [kind : {"text"}, raw : TextScores]
Min(a, b) == IF a <= b THEN a ELSE b
Max(a, b) == IF a >= b THEN a ELSE b

\* max(0.0, min(1.0, confidence))
ClampConfidence(raw) == Max(0, Min(1000, raw))

Abs(x) == IF x < 0 THEN 0 - x ELSE x

\* The patterns capture digits and dots only: a minus sign is never matched.
extract_confidence_from_text(content) ==
    IF content.kind = "text" THEN ClampConfidence(Abs(content.raw)) ELSE NoScore

\* NoScore is None.  float('nan') compares false with everything, so
\* min(1.0, nan) keeps 1.0.
parse_confidence_response(content) ==
    IF content.kind = "value" THEN ClampConfidence(content.raw)
    ELSE IF content.kind = "nan" THEN Max(0, 1000)
    ELSE extract_confidence_from_text(content)

\* What the judge does on each of the attempts; an attempt after the one whose
\* content gave a confidence is never made.
NotCalled == [kind |-> "not_called", raw |-> 0]
ScorerJudgeRuns ==
    {judge \in [1..max_retries -> ScorerJudgeOutcomes \cup {NotCalled}] :
        \A k \in 1..max_retries :
            (judge[k] = NotCalled) <=>
                (\E j \in 1..(k - 1) : parse_confidence_response(judge[j]) # NoScore)}

default_missing(threshold, reason) ==
    [confidence_score |-> NoScore, meets_threshold |-> FALSE,
     threshold_value |-> NoScore, reasoning |-> None]
default_low_confidence(threshold, reason) ==
    [confidence_score |-> 0, meets_threshold |-> FALSE,
     threshold_value |-> threshold, reasoning |-> reason]

RECURSIVE score_attempt(_, _, _)
score_attempt(judge, attempt, threshold) ==
    IF attempt >= max_retries
    THEN default_low_confidence(threshold, "all_retries_failed")
    ELSE LET out == judge[attempt + 1]
         IN  IF out.kind \in {"value", "nan", "text", "unparsable"}
                /\ parse_confidence_response(out) # NoScore
             THEN LET confidence_score == parse_confidence_response(out)
                  IN  [confidence_score |-> confidence_score,
                       meets_threshold |-> confidence_score >= threshold,
                       threshold_value |-> threshold, reasoning |-> "judge"]
             ELSE IF out.kind = "timeout" /\ attempt = max_retries - 1
                  THEN default_low_confidence(threshold, "timeout")
             ELSE IF out.kind = "exception" /\ attempt = max_retries - 1
                  THEN default_low_confidence(threshold, "error")
             ELSE score_attempt(judge, attempt + 1, threshold)

score(judge, threshold) == score_attempt(judge, 0, threshold)

NoConfidence ==
    [confidence_score |-> NoScore, meets_threshold |-> FALSE,
     threshold_value |-> NoScore, reasoning |-> None]

\* ------------------------------------------------------ escalation handler
\* The placeholders each template of the two message tables uses.
CustomerTopicTemplates ==
    {"human_only", "low_confidence", "insufficient_evidence", "conflicting_evidence"}

TemplatePlaceholders(table, template) ==
    IF table = "customer"
    THEN IF template \in CustomerTopicTemplates THEN {"topic"} ELSE {}
    ELSE IF template = "low_confidence" THEN {"confidence_score", "threshold"}
         ELSE {"reason"}

Toks(words) == [i \in DOMAIN words |-> Tok(words[i])]

format_no_reason(trigger_type, intent_name, confidence_score, threshold) == NoReason

format_escalation_reason(trigger_type, intent_name, confidence_score, threshold) ==
    IF trigger_type = "human_only"
    THEN <<Tok("Intent"), Tok("category"), Tok("is"), Tok("HumanOnly"), Tok("(intent:"),
           Tok(IF intent_name = None THEN "unknown" ELSE intent_name)>>
    ELSE IF trigger_type = "low_confidence"
    THEN <<Tok("Confidence"), Tok("score"),
           Num(Format2(IF confidence_score = NoScore THEN 0 ELSE confidence_score)),
           Tok("below"), Tok("threshold"), Num(threshold)>>
    ELSE IF trigger_type = "insufficient_evidence"
    THEN Toks(<<"No", "retrieval", "results", "or", "insufficient", "information">>)
    ELSE IF trigger_type = "conflicting_evidence"
    THEN Toks(<<"Conflicting", "information", "in", "retrieved", "chunks">>)
    ELSE IF trigger_type = "account_specific"
    THEN Toks(<<"Account-specific", "or", "personal", "data", "request">>)
    ELSE IF trigger_type = "security_fraud"
    THEN Toks(<<"Security", "or", "fraud", "indicators", "detected">>)
    ELSE IF trigger_type = "financial_advice"
    THEN Toks(<<"Financial", "advice", "framing", "detected">>)
    ELSE IF trigger_type = "legal_hardship"
    THEN Toks(<<"Legal", "or", "financial", "hardship", "signals">>)
    ELSE IF trigger_type = "emotional_distress"
    THEN Toks(<<"Emotional", "distress", "or", "urgent", "language", "detected">>)
    ELSE IF trigger_type = "repeated_misunderstanding"
    THEN Toks(<<"Multiple", "failed", "interactions">>)
    ELSE IF trigger_type = "explicit_human_request"
    THEN Toks(<<"User", "explicitly", "requested", "human", "assistance">>)
    ELSE <<Tok("Escalation"), Tok("triggered:"), Tok(trigger_type)>>

NoMessage ==
    [table |-> None, template |-> None, topic |-> None, reason |-> NoReason,
     confidence_score |-> NoScore, threshold |-> NoScore]

generate_escalation_message(trigger_type, assistant_mode, intent_name, escalation_reason, confidence_score, threshold) ==
    LET table == IF assistant_mode = "customer" THEN "customer" ELSE "banker"
        template == IF trigger_type \in ESCALATION_TRIGGERS
                    THEN trigger_type ELSE "human_only"
        topic == IF assistant_mode = "customer"
                 THEN (IF intent_name = None THEN "your question" ELSE intent_name)
                 ELSE "this query"
        uses == TemplatePlaceholders(table, template)
    IN  [table |-> table,
         template |-> template,
         topic |-> IF "topic" \in uses THEN topic ELSE None,
         reason |-> IF "reason" \in uses
                    THEN (IF escalation_reason = NoReason
                          THEN <<Tok(trigger_type), Tok("trigger")>>
                          ELSE escalation_reason)
                    ELSE NoReason,
         confidence_score |->
             IF "confidence_score" \in uses
             THEN Format2(IF confidence_score = NoScore THEN 0 ELSE confidence_score)
             ELSE NoScore,
         threshold |-> IF "threshold" \in uses THEN threshold ELSE NoScore]

handle_escalation(trigger_type, assistant_mode, intent_name, escalation_reason, confidence_score, threshold) ==
    LET trigger == IF trigger_type \notin ESCALATION_TRIGGERS
                   THEN "human_only" ELSE trigger_type
        reason == IF escalation_reason = NoReason
                  THEN format_escalation_reason(trigger, intent_name,
                                                confidence_score, threshold)
                  ELSE escalation_reason
    IN  [escalated |-> TRUE,
         escalation_message |->
             generate_escalation_message(trigger, assistant_mode, intent_name,
                                         reason, confidence_score, threshold),
         trigger_type |-> trigger,
         escalation_reason |-> reason,
         response_text |-> NoText,
         confidence_score |-> NoScore]

\* ---------------------------------------------------- trigger detection
\* A query is a sequence of words here; re.IGNORECASE is Lower, a pattern
\* \bw1 w2\b is the phrase <<w1, w2>> and \bw1 w2.*w3\b a phrase with a later word.
Lower(w) ==
    IF w = "Fraud" THEN "fraud" ELSE IF w = "URGENT" THEN "urgent"
    ELSE IF w = "I" THEN "i" ELSE w

HasPhrase(q, phrase) ==
    \E i \in 1..(Len(q) - Len(phrase) + 1) :
        \A j \in 1..Len(phrase) : Lower(q[i + j - 1]) = phrase[j]

HasPhraseThen(q, phrase, word) ==
    \E i \in 1..(Len(q) - Len(phrase) + 1) :
        /\ \A j \in 1..Len(phrase) : Lower(q[i + j - 1]) = phrase[j]
        /\ \E k \in (i + Len(phrase))..Len(q) : Lower(q[k]) = word

account_patterns ==
    {<<"my", "account">>, <<"my", "balance">>, <<"my", "transactions">>,
     <<"account", "number">>, <<"my", "card">>, <<"personal", "information">>}
security_patterns ==
    {<<"fraud">>, <<"scam">>, <<"stolen">>, <<"lost", "card">>, <<"unauthorized">>,
     <<"suspicious">>, <<"security", "breach">>}
advice_patterns ==
    {<<"should", "i">>, <<"what", "should">>, <<"recommend">>, <<"advice">>,
     <<"what", "do", "you", "think">>, <<"is", "it", "good">>}
hardship_patterns ==
    {<<"hardship">>, <<"can't", "pay">>, <<"struggling">>, <<"legal">>, <<"lawsuit">>,
     <<"dispute">>, <<"complaint">>}
emotional_patterns ==
    {<<"urgent">>, <<"emergency">>, <<"asap">>, <<"immediately">>, <<"worried">>,
     <<"concerned">>, <<"stressed">>, <<"panicked">>}
human_request_patterns ==
    {<<"human", "agent">>, <<"real", "person">>, <<"actual", "person">>,
     <<"not", "a", "bot">>}
human_request_gap_patterns ==
    {[phrase |-> <<"speak", "to">>, word |-> "human"],
     [phrase |-> <<"talk", "to">>, word |-> "person"]}

MatchesAny(q, patterns) == \E phrase \in patterns : HasPhrase(q, phrase)

\* interaction_history[-3:]
WholeHistory(history) == history
LastThree(history) ==
    IF Len(history) <= 3 THEN history ELSE SubSeq(history, Len(history) - 2, Len(history))

failed_count(history) == Cardinality({i \in DOMAIN LastThree(history) : LastThree(history)[i]})

When(cond, trigger) == IF cond THEN <<trigger>> ELSE <<>>

\* retrieved_chunks is the number of chunks, Absent when the argument is None.
detect_escalation_triggers(user_query, intent_category, confidence_score, retrieved_chunks, interaction_history, threshold) ==
    When(intent_category = "human_only", "human_only")
    \o When(confidence_score # NoScore /\ confidence_score < threshold, "low_confidence")
    \o When(retrieved_chunks = Absent \/ retrieved_chunks = 0, "insufficient_evidence")
    \o When(MatchesAny(user_query, account_patterns), "account_specific")
    \o When(MatchesAny(user_query, security_patterns), "security_fraud")
    \o When(MatchesAny(user_query, advice_patterns), "financial_advice")
    \o When(MatchesAny(user_query, hardship_patterns), "legal_hardship")
    \o When(MatchesAny(user_query, emotional_patterns), "emotional_distress")
    \o When(interaction_history # <<>> /\ failed_count(interaction_history) >= 2,
            "repeated_misunderstanding")
    \o When(\/ MatchesAny(user_query, human_request_patterns)
            \/ \E g \in human_request_gap_patterns :
                  HasPhraseThen(user_query, g.phrase, g.word),
            "explicit_human_request")

\* The words of a query of the pipeline: its pieces other than whitespace.
QueryWords(query) == SelectSeq(query, LAMBDA piece : piece # SP)

\* --------------------------------------------- interaction record (logger)
\* The keyword defaults of log_interaction.
LogDefaults(assistant_mode, user_query) ==
    [assistant_mode |-> assistant_mode,
     user_query |-> user_query,
     intent_name |-> None,
     intent_category |-> None,
     classification_reason |-> None,
     step_1_intent_completed |-> FALSE,
     step_2_routing_decision |-> None,
     step_3_retrieval_performed |-> FALSE,
     step_4_response_generated |-> FALSE,
     step_5_confidence_score |-> NoScore,
     step_6_escalation_triggered |-> FALSE,
     outcome |-> "resolved",
     confidence_score |-> NoScore,
     escalation_reason |-> NoReason,
     response_text |-> NoText,
     retrieved_chunks_count |-> Absent]

\* The interaction_data log_interaction builds from its arguments.
interaction_data(args) ==
    [args EXCEPT !.confidence_score =
        IF @ # NoScore /\ ~validate_confidence_score(@) THEN NoScore ELSE @]

\* ----------------------------------------- logger: trigger type of a reason
\* The keywords of trigger_mapping, in the order of the dict, with their triggers.
trigger_mapping ==
    << <<"human_only", "human_only">>, <<"confidence", "low_confidence">>,
       <<"insufficient", "insufficient_evidence">>,
       <<"conflicting", "conflicting_evidence">>, <<"account", "account_specific">>,
       <<"security", "security_fraud">>, <<"fraud", "security_fraud">>,
       <<"financial advice", "financial_advice">>, <<"advice", "financial_advice">>,
       <<"legal", "legal_hardship">>, <<"hardship", "legal_hardship">>,
       <<"emotional", "emotional_distress">>, <<"distress", "emotional_distress">>,
       <<"urgent", "emotional_distress">>, <<"repeated", "repeated_misunderstanding">>,
       <<"misunderstanding", "repeated_misunderstanding">>,
       <<"human", "explicit_human_request">>, <<"agent", "explicit_human_request">> >>

\* The single-word keywords that occur in the lower-cased word w.
KeywordsInWord(w) ==
    CASE w = "human_only" -> {"human_only", "human"}
      [] w \in {"HumanOnly", "human"} -> {"human"}
      [] w \in {"Confidence", "confidence"} -> {"confidence"}
      [] w = "insufficient" -> {"insufficient"}
      [] w = "Conflicting" -> {"conflicting"}
      [] w = "Account-specific" -> {"account"}
      [] w = "Security" -> {"security"}
      [] w = "fraud" -> {"fraud"}
      [] w = "advice" -> {"advice"}
      [] w = "Legal" -> {"legal"}
      [] w = "hardship" -> {"hardship"}
      [] w = "Emotional" -> {"emotional"}
      [] w = "distress" -> {"distress"}
      [] w = "urgent" -> {"urgent"}
      [] OTHER -> {}

\* keyword in escalation_reason.lower()
KeywordInReason(keyword, reason) ==
    IF keyword = "financial advice"
    THEN \E i \in 1..(Len(reason) - 1) :
            reason[i].w \in {"Financial", "financial"} /\ reason[i + 1].w = "advice"
    ELSE \E i \in DOMAIN reason : keyword \in KeywordsInWord(reason[i].w)

RECURSIVE extract_from(_, _)
extract_from(reason, k) ==
    IF k > Len(trigger_mapping) THEN "unknown"
    ELSE IF KeywordInReason(trigger_mapping[k][1], reason) THEN trigger_mapping[k][2]
    ELSE extract_from(reason, k + 1)

extract_trigger_type(escalation_reason) == extract_from(escalation_reason, 1)

\* =================================================================== state
VARIABLES
    threshold,            \* Config.CONFIDENCE_THRESHOLD, thousandths
    wait_for_inline,      \* asyncio.wait_for awaits the coroutine in the calling task
    interaction_logger,   \* the singleton InteractionLogger exists
    retry_queue_made,     \* self.retry_queue is not None
    retry_queue,          \* its items
    retry_worker_started, \* self._retry_worker_started
    retry_task,           \* the worker task: the loop it lives in, and its state
    db_interactions,      \* rows of the interactions table
    db_escalations,       \* rows of the escalations table
    sync_calls,           \* log_interaction calls made with no running loop so far
    turn,                 \* turns started so far; also the id of the turn's event loop
    loop,                 \* state of the event loop asyncio.run made for the turn
    pc,                   \* position of run_pipeline_async
    user_query, assistant_mode,
    intent_result, routing_decision, retrieval_result, response_result,
    confidence_result,
    invoked,              \* the stages invoked in this turn, in order
    raised_at,            \* the step that raised in this turn, None if none
    logged,               \* the interaction_data of this turn's log_interaction calls
    result,               \* what run_pipeline_async returned
    log_task,             \* the background task of this turn's log_interaction
    job,                  \* its insert in the executor thread
    log_calls,            \* each log_interaction call: context, return value, insert at return
    loop_calls,           \* log_interaction calls made inside a long-lived loop so far
    bg,                   \* their background tasks, one record per call
    retry_item,           \* the item the retry worker holds while it backs off
    fn_call,              \* the last direct call of a component: name, arguments, return
    sess,                 \* concurrent sessions: the position of each one's turn
    clock,                \* time.time(), advanced by every reading
    start_time,           \* self.start_time of the shared logger, 0 for None
    worker_tasks          \* asyncio.create_task(self._retry_worker()) calls so far

sessVars == <<sess, clock, start_time, worker_tasks>>

svcVars == <<loop_calls, bg, retry_item>>
procVars ==
    <<sessVars, fn_call, threshold, wait_for_inline, interaction_logger, retry_queue_made, retry_queue,
      retry_worker_started, retry_task, db_interactions, db_escalations, sync_calls,
      svcVars>>
stageVars ==
    <<intent_result, routing_decision, retrieval_result, response_result,
      confidence_result>>
turnVars ==
    <<turn, loop, pc, user_query, assistant_mode, intent_result, routing_decision,
      retrieval_result, response_result, confidence_result, invoked, raised_at,
      logged, result, log_task, job, log_calls>>
vars == <<procVars, turnVars>>

NoRetrieval == [retrieved_chunks |-> Absent, success |-> FALSE]
NoResult ==
    [escalated |-> FALSE, escalation_message |-> NoMessage, trigger_type |-> None,
     escalation_reason |-> NoReason, response_text |-> NoText,
     confidence_score |-> NoScore]
NoTask == [loop |-> 0, st |-> None]
NoItem == [kind |-> None, call |-> 0, attempt |-> 0]
NoCall == [fn |-> None]
NoSession == [pc |-> "idle", started_at |-> 0, measured_from |-> 0]

Init ==
    /\ threshold \in Thresholds
    /\ wait_for_inline \in BOOLEAN
    /\ interaction_logger = FALSE
    /\ retry_queue_made = FALSE
    /\ retry_queue = <<>>
    /\ retry_worker_started = FALSE
    /\ retry_task = NoTask
    /\ db_interactions = <<>>
    /\ db_escalations = <<>>
    /\ sync_calls = 0
    /\ turn = 0
    /\ loop = None
    /\ pc = "idle"
    /\ user_query = <<>>
    /\ assistant_mode = None
    /\ intent_result = NoneIntent
    /\ routing_decision = NoRouting
    /\ retrieval_result = NoRetrieval
    /\ response_result = NoResponse
    /\ confidence_result = NoConfidence
    /\ invoked = <<>>
    /\ raised_at = None
    /\ logged = <<>>
    /\ result = NoResult
    /\ log_task = None
    /\ job = None
    /\ log_calls = <<>>
    /\ loop_calls = 0
    /\ bg = <<>>
    /\ retry_item = NoItem
    /\ fn_call = NoCall
    /\ sess = [s \in 1..MaxSessions |-> NoSession]
    /\ clock = 0
    /\ start_time = 0
    /\ worker_tasks = 0

\* ============================================ logger: log_interaction (loop)
\* What log_interaction returns to its caller.
log_interaction_return == None

\* log_interaction called from a coroutine, the event loop running: it builds the
\* record, makes the queue, creates the background task and (once) the worker.
LogInteraction(args) ==
    /\ logged' = Append(logged, interaction_data(args))
    /\ log_task' = "created"
    /\ retry_queue_made' = TRUE
    /\ retry_worker_started' = TRUE
    /\ retry_task' = IF retry_worker_started THEN retry_task
                     ELSE [loop |-> turn, st |-> "created"]
    /\ log_calls' = Append(log_calls,
                           [context |-> "loop", returned |-> log_interaction_return,
                            insert_at_return |-> "pending"])
    /\ UNCHANGED <<retry_queue, job>>

NoLog ==
    UNCHANGED <<logged, log_task, retry_queue_made, retry_worker_started, retry_task,
                log_calls, retry_queue, job>>

Return(res) ==
    /\ result' = res
    /\ pc' = "returned"

\* ===================================================== pipeline orchestrator
\* Variant: retrieval is bypassed for no intent.
SkipRetrievalNever(intent_name) == FALSE

SkipRetrieval(intent_name) ==
    intent_name \in {"greeting", "unknown", "general_conversation"}

\* The except clause of run_pipeline_async.
PipelineErrorReason(e) == <<Tok("Pipeline"), Tok("error:"), Tok(e)>>

PipelineErrorResult(e) ==
    [escalated |-> TRUE,
     escalation_message |->
        [NoMessage EXCEPT !.template = "pipeline_error", !.reason = PipelineErrorReason(e)],
     trigger_type |-> None,
     escalation_reason |-> NoReason,
     response_text |-> [kind |-> "error_apology", variant |-> "any"],
     confidence_score |-> NoScore]

PipelineErrorLog(e) ==
    [LogDefaults(assistant_mode, user_query) EXCEPT
        !.outcome = "escalated",
        !.escalation_reason = PipelineErrorReason(e)]

\* Variant: the except clause returns its result without logging.
HandleExceptionNoLog(where, e) ==
    /\ raised_at' = where
    /\ NoLog
    /\ Return(PipelineErrorResult(e))

HandleException(where, e) ==
    /\ raised_at' = where
    /\ LogInteraction(PipelineErrorLog(e))
    /\ Return(PipelineErrorResult(e))

\* The conditions of the five gates, each preceded by the variant in which the
\* gate lets everything through.
Gate1NeverFails(intent) == FALSE

Gate1Fails(intent) == intent = NoneIntent

Gate2NeverFails(routing) == FALSE

Gate2Fails(routing) == routing.route = "escalate"

Gate3NeverFails(retrieval) == FALSE

Gate3Fails(retrieval) == retrieval.retrieved_chunks <= 0

Gate4NeverFails(response) == FALSE

Gate4Fails(response) == response = NoResponse

Gate5NeverFails(confidence) == FALSE

Gate5Fails(confidence) == ~confidence.meets_threshold

\* The gates: the trigger and reason handed to handle_escalation, and the record
\* handed to log_interaction.
Gate1Escalation ==
    handle_escalation("insufficient_evidence", assistant_mode, None,
                      Toks(<<"Intent", "classification", "failed">>), NoScore, threshold)

Gate1Log(escalation_result) ==
    [LogDefaults(assistant_mode, user_query) EXCEPT
        !.outcome = "escalated",
        !.escalation_reason = escalation_result.escalation_reason,
        !.step_1_intent_completed = FALSE,
        !.step_6_escalation_triggered = TRUE]

Gate2Escalation(intent) ==
    handle_escalation("human_only", assistant_mode, intent.intent_name,
                      <<Tok("Intent"), Tok("category:"), Tok(intent.intent_category)>>,
                      NoScore, threshold)

IntentLog(intent, routing) ==
    [LogDefaults(assistant_mode, user_query) EXCEPT
        !.intent_name = intent.intent_name,
        !.intent_category = intent.intent_category,
        !.classification_reason = intent.classification_reason,
        !.step_1_intent_completed = TRUE,
        !.step_2_routing_decision = routing.route]

Gate2Log(intent, routing, escalation_result) ==
    [IntentLog(intent, routing) EXCEPT
        !.step_6_escalation_triggered = TRUE,
        !.outcome = "escalated",
        !.escalation_reason = escalation_result.escalation_reason]

Gate3Escalation ==
    handle_escalation("insufficient_evidence", assistant_mode, None,
                      Toks(<<"No", "retrieval", "results">>), NoScore, threshold)

Gate3Log(intent, routing, escalation_result) ==
    [IntentLog(intent, routing) EXCEPT
        !.step_3_retrieval_performed = TRUE,
        !.step_6_escalation_triggered = TRUE,
        !.outcome = "escalated",
        !.escalation_reason = escalation_result.escalation_reason,
        !.retrieved_chunks_count = 0]

Gate4Escalation ==
    handle_escalation("insufficient_evidence", assistant_mode, None,
                      Toks(<<"Response", "generation", "failed">>), NoScore, threshold)

Gate4Log(intent, routing, retrieval, escalation_result) ==
    [IntentLog(intent, routing) EXCEPT
        !.step_3_retrieval_performed = TRUE,
        !.step_4_response_generated = FALSE,
        !.step_6_escalation_triggered = TRUE,
        !.outcome = "escalated",
        !.escalation_reason = escalation_result.escalation_reason,
        !.retrieved_chunks_count = retrieval.retrieved_chunks]

Gate5Escalation(confidence) ==
    handle_escalation("low_confidence", assistant_mode, None,
                      <<Tok("Confidence"), Num(Format2(confidence.confidence_score)),
                        Tok("below"), Tok("threshold"), Num(threshold)>>,
                      confidence.confidence_score, threshold)

Gate5Log(intent, routing, retrieval, response, confidence, escalation_result) ==
    [IntentLog(intent, routing) EXCEPT
        !.step_3_retrieval_performed = TRUE,
        !.step_4_response_generated = TRUE,
        !.step_5_confidence_score = confidence.confidence_score,
        !.step_6_escalation_triggered = TRUE,
        !.outcome = "escalated",
        !.confidence_score = confidence.confidence_score,
        !.escalation_reason = escalation_result.escalation_reason,
        !.response_text = response.response_text,
        !.retrieved_chunks_count = retrieval.retrieved_chunks]

ResolvedLog(intent, routing, retrieval, response, confidence) ==
    [IntentLog(intent, routing) EXCEPT
        !.step_3_retrieval_performed = TRUE,
        !.step_4_response_generated = TRUE,
        !.step_5_confidence_score = confidence.confidence_score,
        !.step_6_escalation_triggered = FALSE,
        !.outcome = "resolved",
        !.confidence_score = confidence.confidence_score,
        !.response_text = response.response_text,
        !.retrieved_chunks_count = retrieval.retrieved_chunks]

ResolvedResult(response, confidence) ==
    [escalated |-> FALSE, escalation_message |-> NoMessage, trigger_type |-> None,
     escalation_reason |-> NoReason, response_text |-> response.response_text,
     confidence_score |-> confidence.confidence_score]

\* The hard-coded confidence of the deterministic intents.
BypassConfidenceResult ==
    [confidence_score |-> BypassConfidence, meets_threshold |-> TRUE,
     threshold_value |-> NoScore, reasoning |-> "deterministic"]

\* Variant: the scorer is bypassed for every intent.
ScorerAlwaysBypassed(skip_retrieval, intent_name) == TRUE

ScorerBypassed(skip_retrieval, intent_name) ==
    skip_retrieval \/ intent_name \in {"greeting", "unknown", "general_conversation"}

\* ------------------------------------------------------------------ actions
\* process_user_message: asyncio.run(run_pipeline_async(...)) on a new event loop.
\* The chat page is the only caller of the pipeline, and it never calls the
\* logger outside a running loop.
StartTurn ==
    /\ pc \in {"idle", "returned", "escaped"}
    /\ loop \in {None, "closed"}
    /\ sync_calls = 0
    /\ turn < MaxTurns
    /\ \E q \in Queries, m \in ModeInputs :
        /\ user_query' = q
        /\ assistant_mode' = m
    /\ turn' = turn + 1
    /\ loop' = "running"
    /\ pc' = "entry"
    /\ intent_result' = NoneIntent
    /\ routing_decision' = NoRouting
    /\ retrieval_result' = NoRetrieval
    /\ response_result' = NoResponse
    /\ confidence_result' = NoConfidence
    /\ invoked' = <<>>
    /\ raised_at' = None
    /\ logged' = <<>>
    /\ result' = NoResult
    /\ log_task' = None
    /\ job' = None
    /\ log_calls' = <<>>
    /\ UNCHANGED procVars

\* get_interaction_logger() and start_timer(), before the try block: the first
\* call constructs the InteractionLogger, which may raise.
ObtainLogger ==
    /\ pc = "entry"
    /\ \/ /\ interaction_logger' = TRUE
          /\ pc' = "services"
          /\ UNCHANGED raised_at
       \/ /\ ~interaction_logger
          /\ UNCHANGED interaction_logger
          /\ raised_at' = "logger"
          /\ pc' = "escaped"
    /\ UNCHANGED <<svcVars, sessVars, fn_call, threshold, wait_for_inline, retry_queue_made, retry_queue,
                   retry_worker_started, retry_task, db_interactions, db_escalations,
                   sync_calls, turn, loop, user_query, assistant_mode, stageVars,
                   invoked, logged, result, log_task, job, log_calls>>

\* The service constructors, the first statements of the try block.
InitServices ==
    /\ pc = "services"
    /\ \/ /\ pc' = "classify"
          /\ UNCHANGED <<raised_at, result>>
          /\ NoLog
       \/ \E e \in ErrTexts : HandleException("services", e)
    /\ UNCHANGED <<svcVars, sessVars, fn_call, threshold, wait_for_inline, interaction_logger, db_interactions,
                   db_escalations, sync_calls, turn, loop, user_query, assistant_mode,
                   stageVars, invoked>>

\* Step 1 and gate 1.
ClassifyStep ==
    /\ pc = "classify"
    /\ invoked' = Append(invoked, "classify")
    /\ \E judge \in ClassifierJudgeOutcomes :
        IF classify_raises(user_query, assistant_mode, judge)
        THEN /\ \E e \in ErrTexts : HandleException("classify", e)
             /\ UNCHANGED intent_result
        ELSE LET intent == classify(user_query, assistant_mode, judge)
             IN  /\ intent_result' = intent
                 /\ UNCHANGED raised_at
                 /\ IF Gate1Fails(intent)
                    THEN /\ LogInteraction(Gate1Log(Gate1Escalation))
                         /\ Return(Gate1Escalation)
                    ELSE /\ pc' = "route"
                         /\ UNCHANGED result
                         /\ NoLog
    /\ UNCHANGED <<svcVars, sessVars, fn_call, threshold, wait_for_inline, interaction_logger, db_interactions,
                   db_escalations, sync_calls, turn, loop, user_query, assistant_mode,
                   routing_decision, retrieval_result, response_result,
                   confidence_result>>

\* Step 2, gate 2 and the retrieval bypass.
RouteStep ==
    /\ pc = "route"
    /\ invoked' = Append(invoked, "route")
    /\ LET routing == route(intent_result.intent_category, intent_result.intent_name,
                            assistant_mode)
       IN  /\ routing_decision' = routing
           /\ IF Gate2Fails(routing)
              THEN /\ LogInteraction(Gate2Log(intent_result, routing,
                                              Gate2Escalation(intent_result)))
                   /\ Return(Gate2Escalation(intent_result))
                   /\ UNCHANGED retrieval_result
              ELSE /\ NoLog
                   /\ UNCHANGED result
                   /\ IF SkipRetrieval(intent_result.intent_name)
                      THEN /\ retrieval_result' = [retrieved_chunks |-> 0, success |-> TRUE]
                           /\ pc' = "generate"
                      ELSE /\ UNCHANGED retrieval_result
                           /\ pc' = "retrieve"
    /\ UNCHANGED <<svcVars, sessVars, fn_call, threshold, wait_for_inline, interaction_logger, db_interactions,
                   db_escalations, sync_calls, turn, loop, user_query, assistant_mode,
                   intent_result, response_result, confidence_result, raised_at>>

\* Step 3 and gate 3.
RetrieveStep ==
    /\ pc = "retrieve"
    /\ invoked' = Append(invoked, "retrieve")
    /\ \/ /\ \E e \in ErrTexts : HandleException("retrieve", e)
          /\ UNCHANGED retrieval_result
       \/ \E n \in 0..MaxChunks :
            LET retrieval == [retrieved_chunks |-> n, success |-> n > 0]
            IN  /\ UNCHANGED raised_at
                /\ IF Gate3Fails(retrieval)
                   THEN IF intent_result.intent_name \in {"unknown", "general_conversation"}
                        THEN /\ retrieval_result' =
                                    [retrieved_chunks |-> 0, success |-> TRUE]
                             /\ pc' = "generate"
                             /\ UNCHANGED result
                             /\ NoLog
                        ELSE /\ retrieval_result' = retrieval
                             /\ LogInteraction(Gate3Log(intent_result, routing_decision,
                                                        Gate3Escalation))
                             /\ Return(Gate3Escalation)
                   ELSE /\ retrieval_result' = retrieval
                        /\ pc' = "generate"
                        /\ UNCHANGED result
                        /\ NoLog
    /\ UNCHANGED <<svcVars, sessVars, fn_call, threshold, wait_for_inline, interaction_logger, db_interactions,
                   db_escalations, sync_calls, turn, loop, user_query, assistant_mode,
                   intent_result, routing_decision, response_result, confidence_result>>

\* Step 4 and gate 4.
GenerateStep ==
    /\ pc = "generate"
    /\ invoked' = Append(invoked, "generate")
    /\ \E judge \in GeneratorJudgeRuns :
        LET response == generate(retrieval_result.retrieved_chunks, assistant_mode,
                                 intent_result.intent_name, judge)
        IN  /\ response_result' = response
            /\ IF Gate4Fails(response)
               THEN /\ LogInteraction(Gate4Log(intent_result, routing_decision,
                                               retrieval_result, Gate4Escalation))
                    /\ Return(Gate4Escalation)
               ELSE /\ pc' = "score"
                    /\ UNCHANGED result
                    /\ NoLog
    /\ UNCHANGED <<svcVars, sessVars, fn_call, threshold, wait_for_inline, interaction_logger, db_interactions,
                   db_escalations, sync_calls, turn, loop, user_query, assistant_mode,
                   intent_result, routing_decision, retrieval_result, confidence_result,
                   raised_at>>

\* Step 5 (or the confidence bypass), gate 5 and step 6.
Conclude(confidence) ==
    /\ confidence_result' = confidence
    /\ IF Gate5Fails(confidence)
       THEN /\ LogInteraction(Gate5Log(intent_result, routing_decision, retrieval_result,
                                       response_result, confidence,
                                       Gate5Escalation(confidence)))
            /\ Return(Gate5Escalation(confidence))
       ELSE /\ LogInteraction(ResolvedLog(intent_result, routing_decision,
                                          retrieval_result, response_result, confidence))
            /\ Return(ResolvedResult(response_result, confidence))

ScoreStep ==
    /\ pc = "score"
    /\ IF ScorerBypassed(SkipRetrieval(intent_result.intent_name),
                         intent_result.intent_name)
       THEN /\ UNCHANGED invoked
            /\ Conclude(BypassConfidenceResult)
       ELSE /\ invoked' = Append(invoked, "score")
            /\ \E judge \in ScorerJudgeRuns : Conclude(score(judge, threshold))
    /\ UNCHANGED <<svcVars, sessVars, fn_call, threshold, wait_for_inline, interaction_logger, db_interactions,
                   db_escalations, sync_calls, turn, loop, user_query, assistant_mode,
                   intent_result, routing_decision, retrieval_result, response_result,
                   raised_at>>

\* ------------------------------------- asyncio.run: the end of a turn's loop
\* The row insert_interaction writes for an interaction_data record.
InteractionRow(data, origin, call) ==
    [outcome |-> data.outcome, origin |-> origin, call |-> call]

\* run_until_complete: the main coroutine is done; the loop stops at the end of
\* the iteration that follows, in which each task created by the last
\* log_interaction call takes its first step, up to its first suspension.
LoopLastIteration ==
    /\ loop = "running"
    /\ pc \in {"returned", "escaped"}
    /\ loop' = "stopped"
    /\ IF log_task = "created"
       THEN IF wait_for_inline
            THEN log_task' = "awaiting_insert" /\ job' = "submitted"
            ELSE log_task' = "awaiting_inner" /\ UNCHANGED job
       ELSE UNCHANGED <<log_task, job>>
    /\ retry_task' = IF retry_task = [loop |-> turn, st |-> "created"]
                     THEN [loop |-> turn, st |-> "waiting"]
                     ELSE retry_task
    /\ UNCHANGED <<svcVars, sessVars, fn_call, threshold, wait_for_inline, interaction_logger, retry_queue_made,
                   retry_queue, retry_worker_started, db_interactions, db_escalations,
                   sync_calls, turn, pc, user_query, assistant_mode, stageVars, invoked,
                   raised_at, logged, result, log_calls>>

\* _cancel_all_tasks: every task still pending is cancelled; CancelledError is
\* not an Exception, so no handler of the logger runs. A submitted executor job
\* is cancelled too unless its thread has already picked it up.
CancelAllTasks ==
    /\ loop = "stopped"
    /\ loop' = "tasks_cancelled"
    /\ log_task' = IF log_task = None THEN None ELSE "cancelled"
    /\ retry_task' = IF retry_task.loop = turn /\ retry_task.st = "waiting"
                     THEN [loop |-> turn, st |-> "cancelled"]
                     ELSE retry_task
    /\ IF job = "submitted"
       THEN job' \in {"running", "cancelled"}
       ELSE UNCHANGED job
    /\ UNCHANGED <<svcVars, sessVars, fn_call, threshold, wait_for_inline, interaction_logger, retry_queue_made,
                   retry_queue, retry_worker_started, db_interactions, db_escalations,
                   sync_calls, turn, pc, user_query, assistant_mode, stageVars, invoked,
                   raised_at, logged, result, log_calls>>

\* The executor thread runs db_client.insert_interaction: the store accepts the
\* row or not. Nobody is left to read the outcome.
ExecutorRun ==
    /\ job = "running"
    /\ \/ /\ job' = "inserted"
          /\ db_interactions' =
                Append(db_interactions, InteractionRow(logged[Len(logged)], "task", turn))
       \/ /\ job' = "rejected"
          /\ UNCHANGED db_interactions
    /\ UNCHANGED <<svcVars, sessVars, fn_call, threshold, wait_for_inline, interaction_logger, retry_queue_made,
                   retry_queue, retry_worker_started, retry_task, db_escalations,
                   sync_calls, turn, loop, pc, user_query, assistant_mode, stageVars,
                   invoked, raised_at, logged, result, log_task, log_calls>>

\* shutdown_default_executor waits for the running thread, then the loop closes.
LoopClose ==
    /\ loop = "tasks_cancelled"
    /\ job # "running"
    /\ loop' = "closed"
    /\ UNCHANGED <<procVars, turn, pc, user_query, assistant_mode, stageVars, invoked,
                   raised_at, logged, result, log_task, job, log_calls>>

\* ------------------------------------- logger: log_interaction (no loop)
SyncReasons ==
    {Toks(<<"No", "retrieval", "results">>),
     <<Tok("Intent"), Tok("category:"), Tok("human_only")>>}

SyncArgs ==
    {LogDefaults("customer", <<"a">>)} \cup
    {[LogDefaults("customer", <<"a">>) EXCEPT !.outcome = "escalated",
                                              !.escalation_reason = r] : r \in SyncReasons}

InsertOutcomes == {"stored", "rejected", "timed_out"}

\* log_interaction called with no event loop running, as the synchronous
\* scripts and tests of the logger do: asyncio.run executes
\* _log_interaction_async to its end before log_interaction returns.
SyncLogInteraction ==
    /\ loop \in {None, "over"}
    /\ pc = "idle"
    /\ turn = 0
    /\ sync_calls < MaxSyncCalls
    /\ loop = "over" => sync_calls = 0    \* one call is followed after the loop
    /\ sync_calls' = sync_calls + 1
    /\ interaction_logger' = TRUE
    /\ retry_queue_made' = TRUE
    /\ \E args \in SyncArgs, ins \in InsertOutcomes, late \in BOOLEAN,
          esc \in InsertOutcomes :
        LET data == interaction_data(args)
            id == Len(db_interactions) + 1
            stored == ins = "stored" \/ (ins = "timed_out" /\ late)
            dependent == ins = "stored" /\ data.outcome = "escalated"
                         /\ data.escalation_reason # NoReason
            escalation_data ==
                [interaction_id |-> id,
                 trigger_type |-> extract_trigger_type(data.escalation_reason),
                 escalation_reason |-> data.escalation_reason]
        IN  /\ (ins # "timed_out" => ~late)
            /\ (~dependent => esc = "stored")
            /\ db_interactions' =
                 IF stored THEN Append(db_interactions, InteractionRow(data, "sync", sync_calls + 1))
                 ELSE db_interactions
            /\ db_escalations' =
                 IF dependent /\ esc = "stored"
                 THEN Append(db_escalations, escalation_data)
                 ELSE db_escalations
            /\ retry_queue' =
                 IF ins # "stored"
                 THEN Append(retry_queue, [kind |-> "interaction", call |-> sync_calls + 1,
                                           attempt |-> 0])
                 ELSE IF dependent /\ esc # "stored"
                 THEN Append(retry_queue, [kind |-> "escalation", call |-> sync_calls + 1,
                                           attempt |-> 0])
                 ELSE retry_queue
            /\ log_calls' = Append(log_calls,
                                   [context |-> "noloop",
                                    returned |-> log_interaction_return,
                                    insert_at_return |-> ins])
    /\ UNCHANGED <<svcVars, sessVars, fn_call, threshold, wait_for_inline, retry_worker_started, retry_task, turn,
                   loop, pc, user_query, assistant_mode, stageVars, invoked, raised_at,
                   logged, result, log_task, job>>

\* ------------------------- logger inside a long-lived event loop
\* A script whose whole body is one coroutine under asyncio.run keeps its loop
\* running between log_interaction calls: the background tasks and the retry
\* worker get to run.
StartLoop ==
    /\ loop = None
    /\ pc = "idle"
    /\ turn = 0
    /\ sync_calls = 0
    /\ loop' = "serving"
    /\ UNCHANGED <<procVars, turn, pc, user_query, assistant_mode, stageVars, invoked,
                   raised_at, logged, result, log_task, job, log_calls>>

turnUnchanged ==
    UNCHANGED <<turn, loop, pc, user_query, assistant_mode, stageVars, invoked,
                raised_at, logged, result, log_task, job>>

NewTask(args) ==
    [data |-> interaction_data(args), st |-> "created", thread |-> None,
     interaction_id |-> 0, escalation_attempted |-> FALSE]

\* log_interaction, the loop running: create_task, and the worker once.
LoopLogInteraction ==
    /\ loop = "serving"
    /\ loop_calls < MaxLoopCalls
    /\ loop_calls' = loop_calls + 1
    /\ \E args \in SyncArgs : bg' = Append(bg, NewTask(args))
    /\ interaction_logger' = TRUE
    /\ retry_queue_made' = TRUE
    /\ retry_worker_started' = TRUE
    /\ retry_task' = IF retry_worker_started THEN retry_task
                     ELSE [loop |-> 0, st |-> "waiting"]
    /\ log_calls' = Append(log_calls,
                           [context |-> "loop", returned |-> log_interaction_return,
                            insert_at_return |-> "pending"])
    /\ turnUnchanged
    /\ UNCHANGED <<sessVars, fn_call, threshold, wait_for_inline, retry_queue, db_interactions,
                   db_escalations, sync_calls, retry_item>>

\* _log_interaction_async to its first suspension: the insert is handed to the
\* executor, whose thread starts on it.
TaskStartInsert(i) ==
    /\ loop = "serving"
    /\ bg[i].st = "created"
    /\ bg' = [bg EXCEPT ![i].st = "awaiting_insert", ![i].thread = "running"]
    /\ turnUnchanged
    /\ UNCHANGED <<sessVars, fn_call, threshold, wait_for_inline, interaction_logger, retry_queue_made,
                   retry_queue, retry_worker_started, retry_task, db_interactions,
                   db_escalations, sync_calls, loop_calls, retry_item, log_calls>>

\* db_client.insert_interaction in the executor thread: a plain insert, which
\* the store accepts or not. The thread runs on after a timeout of its waiter.
InsertThreadFinish(i) ==
    /\ loop \in {"serving", "over"}
    /\ bg[i].thread = "running"
    /\ \/ /\ db_interactions' =
                Append(db_interactions, InteractionRow(bg[i].data, "task", i))
          /\ bg' = [bg EXCEPT ![i].thread = "stored",
                              ![i].interaction_id = Len(db_interactions) + 1]
       \/ /\ bg' = [bg EXCEPT ![i].thread = "rejected"]
          /\ UNCHANGED db_interactions
    /\ turnUnchanged
    /\ UNCHANGED <<sessVars, fn_call, threshold, wait_for_inline, interaction_logger, retry_queue_made,
                   retry_queue, retry_worker_started, retry_task, db_escalations,
                   sync_calls, loop_calls, retry_item, log_calls>>

\* _log_interaction_async after the insert returned within the timeout: the
\* escalation follow-up on an id, the retry queue on None.
TaskInsertReturned(i) ==
    /\ loop = "serving"
    /\ bg[i].st = "awaiting_insert"
    /\ bg[i].thread \in {"stored", "rejected"}
    /\ IF bg[i].thread = "stored"
       THEN /\ bg' = [bg EXCEPT ![i].st =
                        IF bg[i].data.outcome = "escalated"
                           /\ bg[i].data.escalation_reason # NoReason
                        THEN "logging_escalation" ELSE "done"]
            /\ UNCHANGED retry_queue
       ELSE /\ bg' = [bg EXCEPT ![i].st = "done"]
            /\ retry_queue' = Append(retry_queue,
                                     [kind |-> "interaction", call |-> i, attempt |-> 0])
    /\ turnUnchanged
    /\ UNCHANGED <<sessVars, fn_call, threshold, wait_for_inline, interaction_logger, retry_queue_made,
                   retry_worker_started, retry_task, db_interactions, db_escalations,
                   sync_calls, loop_calls, retry_item, log_calls>>

\* except asyncio.TimeoutError: log_timeout passed with the thread still in the
\* insert; the payload goes to the retry queue.
TaskInsertTimeout(i) ==
    /\ loop = "serving"
    /\ bg[i].st = "awaiting_insert"
    /\ bg[i].thread = "running"
    /\ bg' = [bg EXCEPT ![i].st = "done"]
    /\ retry_queue' = Append(retry_queue,
                             [kind |-> "interaction", call |-> i, attempt |-> 0])
    /\ turnUnchanged
    /\ UNCHANGED <<sessVars, fn_call, threshold, wait_for_inline, interaction_logger, retry_queue_made,
                   retry_worker_started, retry_task, db_interactions, db_escalations,
                   sync_calls, loop_calls, retry_item, log_calls>>

EscalationData(task) ==
    [interaction_id |-> task.interaction_id,
     trigger_type |-> extract_trigger_type(task.data.escalation_reason),
     escalation_reason |-> task.data.escalation_reason]

\* log_escalation_async: the dependent escalation insert and its own retry.
TaskLogEscalation(i) ==
    /\ loop = "serving"
    /\ bg[i].st = "logging_escalation"
    /\ bg' = [bg EXCEPT ![i].st = "done", ![i].escalation_attempted = TRUE]
    /\ \E esc \in InsertOutcomes :
        IF esc = "stored"
        THEN /\ db_escalations' = Append(db_escalations, EscalationData(bg[i]))
             /\ UNCHANGED retry_queue
        ELSE /\ UNCHANGED db_escalations
             /\ retry_queue' = Append(retry_queue,
                                      [kind |-> "escalation", call |-> i, attempt |-> 0])
    /\ turnUnchanged
    /\ UNCHANGED <<sessVars, fn_call, threshold, wait_for_inline, interaction_logger, retry_queue_made,
                   retry_worker_started, retry_task, db_interactions, sync_calls,
                   loop_calls, retry_item, log_calls>>

\* The coroutine asyncio.run was given returns: the tasks that have started
\* and are not done are cancelled, the worker among them with the item it
\* holds; an insert already in its thread runs to its end.
EndLoop ==
    /\ loop = "serving"
    /\ \A i \in DOMAIN bg : bg[i].st # "created"
    /\ loop' = "over"
    /\ bg' = [i \in DOMAIN bg |->
                IF bg[i].st = "done" THEN bg[i] ELSE [bg[i] EXCEPT !.st = "cancelled"]]
    /\ retry_task' = IF retry_task.st \in {"waiting", "backoff"}
                     THEN [retry_task EXCEPT !.st = "cancelled"]
                     ELSE retry_task
    /\ retry_item' = NoItem
    /\ UNCHANGED <<sessVars, fn_call, threshold, wait_for_inline, interaction_logger, retry_queue_made,
                   retry_queue, retry_worker_started, db_interactions, db_escalations,
                   sync_calls, loop_calls, log_calls, turn, pc, user_query,
                   assistant_mode, stageVars, invoked, raised_at, logged, result,
                   log_task, job>>

\* _retry_worker: take an item; drop it when its attempts are used up, else
\* sleep retry_delay * 2 ** attempt.
WorkerGet ==
    /\ loop = "serving"
    /\ retry_task.st = "waiting"
    /\ retry_queue # <<>>
    /\ retry_queue' = Tail(retry_queue)
    /\ IF Head(retry_queue).attempt >= max_retries
       THEN UNCHANGED <<retry_task, retry_item>>
       ELSE /\ retry_item' = Head(retry_queue)
            /\ retry_task' = [retry_task EXCEPT !.st = "backoff"]
    /\ turnUnchanged
    /\ UNCHANGED <<sessVars, fn_call, threshold, wait_for_inline, interaction_logger, retry_queue_made,
                   retry_worker_started, db_interactions, db_escalations, sync_calls,
                   loop_calls, bg, log_calls>>

\* _retry_worker after the sleep: the same insert again, and nothing else; a
\* failure puts the item back with attempt + 1.
WorkerRetry ==
    /\ loop = "serving"
    /\ retry_task.st = "backoff"
    /\ retry_task' = [retry_task EXCEPT !.st = "waiting"]
    /\ retry_item' = NoItem
    /\ \E success \in BOOLEAN :
        IF success
        THEN /\ UNCHANGED retry_queue
             /\ IF retry_item.kind = "interaction"
                THEN /\ db_interactions' =
                           Append(db_interactions,
                                  InteractionRow(bg[retry_item.call].data, "retry",
                                                 retry_item.call))
                     /\ UNCHANGED db_escalations
                ELSE /\ db_escalations' =
                           Append(db_escalations, EscalationData(bg[retry_item.call]))
                     /\ UNCHANGED db_interactions
        ELSE /\ retry_queue' = Append(retry_queue,
                                      [retry_item EXCEPT !.attempt = @ + 1])
             /\ UNCHANGED <<db_interactions, db_escalations>>
    /\ turnUnchanged
    /\ UNCHANGED <<sessVars, fn_call, threshold, wait_for_inline, interaction_logger, retry_queue_made,
                   retry_worker_started, sync_calls, loop_calls, bg, log_calls>>

Next ==
    \/ StartTurn
    \/ ObtainLogger
    \/ InitServices
    \/ ClassifyStep
    \/ RouteStep
    \/ RetrieveStep
    \/ GenerateStep
    \/ ScoreStep
    \/ LoopLastIteration
    \/ CancelAllTasks
    \/ ExecutorRun
    \/ LoopClose
    \/ SyncLogInteraction
    \/ StartLoop
    \/ LoopLogInteraction
    \/ \E i \in DOMAIN bg : TaskStartInsert(i)
    \/ \E i \in DOMAIN bg : InsertThreadFinish(i)
    \/ \E i \in DOMAIN bg : TaskInsertReturned(i)
    \/ \E i \in DOMAIN bg : TaskInsertTimeout(i)
    \/ \E i \in DOMAIN bg : TaskLogEscalation(i)
    \/ WorkerGet
    \/ WorkerRetry
    \/ EndLoop

Spec == Init /\ [][Next]_vars

\* The event loop runs every ready task and every timer expires: a worker
\* that can take an item or finish its backoff eventually does.
FairSpec == Spec /\ WF_vars(WorkerGet) /\ WF_vars(WorkerRetry)

\* ------------------------------------------------ concurrent sessions
\* Two browser tabs are two sessions of the chat app, each running its script,
\* and so its turn under asyncio.run, in a thread of its own; the logger is
\* the one object they share. A step is what one thread does between two
\* points at which another thread can get to run.
sessUnchanged ==
    UNCHANGED <<fn_call, threshold, wait_for_inline, interaction_logger, retry_queue,
                retry_task, db_interactions, db_escalations, sync_calls, svcVars, turnVars>>

\* interaction_logger.start_timer() at the start of the turn
SessStartTimer(s) ==
    /\ sess[s].pc = "idle"
    /\ clock' = clock + 1
    /\ start_time' = clock + 1
    /\ sess' = [sess EXCEPT ![s].pc = "pipeline", ![s].started_at = clock + 1]
    /\ UNCHANGED <<worker_tasks, retry_queue_made, retry_worker_started>>
    /\ sessUnchanged

\* log_interaction: processing_time_ms = time.time() - self.start_time
SessProcessingTime(s) ==
    /\ sess[s].pc = "pipeline"
    /\ sess' = [sess EXCEPT ![s].pc = "ensure", ![s].measured_from = start_time]
    /\ UNCHANGED <<clock, start_time, worker_tasks, retry_queue_made, retry_worker_started>>
    /\ sessUnchanged

\* _ensure_retry_queue: if self.retry_queue is None
SessQueueIsNone(s) ==
    /\ sess[s].pc = "ensure"
    /\ sess' = [sess EXCEPT ![s].pc = IF retry_queue_made THEN "log" ELSE "make_queue"]
    /\ UNCHANGED <<clock, start_time, worker_tasks, retry_queue_made, retry_worker_started>>
    /\ sessUnchanged

\* self.retry_queue = asyncio.Queue(); if loop.is_running() and not self._retry_worker_started
SessMakeQueue(s) ==
    /\ sess[s].pc = "make_queue"
    /\ retry_queue_made' = TRUE
    /\ sess' = [sess EXCEPT ![s].pc = IF retry_worker_started THEN "log" ELSE "ensure_create"]
    /\ UNCHANGED <<clock, start_time, worker_tasks, retry_worker_started>>
    /\ sessUnchanged

\* log_interaction: create_task(_log_interaction_async); if not self._retry_worker_started
SessWorkerStarted(s) ==
    /\ sess[s].pc = "log"
    /\ sess' = [sess EXCEPT ![s].pc = IF retry_worker_started THEN "done" ELSE "log_create"]
    /\ UNCHANGED <<clock, start_time, worker_tasks, retry_queue_made, retry_worker_started>>
    /\ sessUnchanged

\* self.retry_task = asyncio.create_task(self._retry_worker())
SessCreateWorker(s) ==
    /\ sess[s].pc \in {"ensure_create", "log_create"}
    /\ worker_tasks' = worker_tasks + 1
    /\ sess' = [sess EXCEPT ![s].pc = IF sess[s].pc = "ensure_create" THEN "ensure_set" ELSE "log_set"]
    /\ UNCHANGED <<clock, start_time, retry_queue_made, retry_worker_started>>
    /\ sessUnchanged

\* self._retry_worker_started = True
SessSetStarted(s) ==
    /\ sess[s].pc \in {"ensure_set", "log_set"}
    /\ retry_worker_started' = TRUE
    /\ sess' = [sess EXCEPT ![s].pc = IF sess[s].pc = "ensure_set" THEN "log" ELSE "done"]
    /\ UNCHANGED <<clock, start_time, worker_tasks, retry_queue_made>>
    /\ sessUnchanged

SessionNext ==
    \E s \in 1..MaxSessions :
        \/ SessStartTimer(s)
        \/ SessProcessingTime(s)
        \/ SessQueueIsNone(s)
        \/ SessMakeQueue(s)
        \/ SessWorkerStarted(s)
        \/ SessCreateWorker(s)
        \/ SessSetStarted(s)

SessionSpec == Init /\ [][SessionNext]_vars

\* ------------------------------------------- components called on their own
\* One run is one call of one component, as a unit test makes it.
\* Everything but fn_call.
callUnchanged ==
    UNCHANGED <<sessVars, threshold, wait_for_inline, interaction_logger, retry_queue_made,
                retry_queue, retry_worker_started, retry_task, db_interactions,
                db_escalations, sync_calls, svcVars, turnVars>>

\* ConfidenceScorer.score, the judge behaving in any way on its attempts.
ScoreCall ==
    /\ fn_call = NoCall
    /\ \E judge \in ScorerJudgeRuns :
          fn_call' = [fn |-> "score", judge |-> judge, out |-> score(judge, threshold)]
    /\ callUnchanged

\* EscalationHandler.handle_escalation with any trigger type and mode.
TriggerInputs == ESCALATION_TRIGGERS \cup {"unknown", "pipeline_error"}
ReasonInputs == {NoReason, <<Tok("Customer"), Tok("asked"), Tok("twice")>>}

HandleEscalationCall ==
    /\ fn_call = NoCall
    /\ \E trigger_type \in TriggerInputs, mode \in ModeInputs, intent_name \in {None, "fee_inquiry"},
          escalation_reason \in ReasonInputs, confidence_score \in {NoScore, 674} :
          fn_call' = [fn |-> "handle_escalation", trigger_type |-> trigger_type,
                      assistant_mode |-> mode, intent_name |-> intent_name,
                      escalation_reason |-> escalation_reason,
                      confidence_score |-> confidence_score,
                      out |-> handle_escalation(trigger_type, mode, intent_name,
                                                escalation_reason, confidence_score,
                                                threshold)]
    /\ callUnchanged

\* EscalationHandler.detect_escalation_triggers on any context.
Vocabulary ==
    {"my", "account", "accounts", "Fraud", "should", "I", "URGENT", "dispute", "human", "agent"}
DetectQueries ==
    {<<>>} \cup {<<w>> : w \in Vocabulary} \cup {<<v, w>> : v, w \in Vocabulary}
    \cup {<<"speak", "to", "a", "human">>}
Histories == UNION {[1..n -> BOOLEAN] : n \in 0..MaxHistory}

DetectCall ==
    /\ fn_call = NoCall
    /\ \E q \in DetectQueries, category \in {None, "automatable", "human_only"},
          confidence_score \in {NoScore, 674, DefaultThreshold},
          retrieved_chunks \in {Absent, 0, 1}, history \in Histories :
          fn_call' = [fn |-> "detect_escalation_triggers", user_query |-> q,
                      intent_category |-> category, confidence_score |-> confidence_score,
                      retrieved_chunks |-> retrieved_chunks,
                      interaction_history |-> history,
                      out |-> detect_escalation_triggers(q, category, confidence_score,
                                                         retrieved_chunks, history,
                                                         threshold)]
    /\ callUnchanged

\* The three entry points of the router on one category.
CategoryInputs == INTENT_CATEGORIES \cup {None, "unknown"}

RouteCall ==
    /\ fn_call = NoCall
    /\ \E category \in CategoryInputs, intent_name \in IntentNames \cup {None},
          mode \in ModeInputs \cup {None} :
          fn_call' = [fn |-> "route", intent_category |-> category,
                      intent_name |-> intent_name, assistant_mode |-> mode,
                      out |-> route(category, intent_name, mode),
                      should_escalate |-> should_escalate(category),
                      get_next_step |-> get_next_step(category)]
    /\ callUnchanged

\* ConfidenceScorer._parse_confidence_response on one judge content.
JudgeContents == {c \in ScorerJudgeOutcomes : c.kind \in {"value", "nan", "text", "unparsable"}}

ParseCall ==
    /\ fn_call = NoCall
    /\ \E content \in JudgeContents :
          fn_call' = [fn |-> "parse_confidence_response", content |-> content,
                      out |-> parse_confidence_response(content)]
    /\ callUnchanged

\* ResponseGenerator._extract_citations on any text and supplied citations.
ResponseTexts == UNION {[1..n -> TextPieces] : n \in 0..MaxTextLen}
\* The retrieval service numbers its citations from 1.
SuppliedCitation == [number : {1, 2, 3}, source : {"Fees"}, url : {"u1", "u2"}]
SuppliedCitations == {<<>>} \cup {<<c>> : c \in SuppliedCitation} \cup {<<c, d>> : c, d \in SuppliedCitation}

ExtractCitationsCall ==
    /\ fn_call = NoCall
    /\ \E text \in ResponseTexts, supplied \in SuppliedCitations :
          fn_call' = [fn |-> "extract_citations", response_text |-> text,
                      retrieval_citations |-> supplied,
                      out |-> extract_citations(text, supplied)]
    /\ callUnchanged

\* Reason texts given to the logger: words that carry keywords of the lookup
\* table and one that carries none.
ReasonWords ==
    {"Confidence", "insufficient", "Account-specific", "Security", "human_only",
     "Financial", "advice", "results"}

ReasonTexts == {Toks(words) : words \in UNION {[1..n -> ReasonWords] : n \in 0..MaxTextLen}}

ExtractTriggerCall ==
    /\ fn_call = NoCall
    /\ \E escalation_reason \in ReasonTexts :
          fn_call' = [fn |-> "_extract_trigger_type", escalation_reason |-> escalation_reason,
                      out |-> extract_trigger_type(escalation_reason)]
    /\ callUnchanged

CallNext ==
    \/ ExtractTriggerCall
    \/ ScoreCall
    \/ ParseCall
    \/ RouteCall
    \/ HandleEscalationCall
    \/ DetectCall
    \/ ExtractCitationsCall

CallSpec == Init /\ [][CallNext]_vars

\* ==================================================================== claims
InSeq(x, seq) == \E i \in DOMAIN seq : seq[i] = x

LastLogged == logged[Len(logged)]

StageIndex(stage) ==
    CASE stage = "classify" -> 1
      [] stage = "route" -> 2
      [] stage = "retrieve" -> 3
      [] stage = "generate" -> 4
      [] stage = "score" -> 5

NonDeterministicIntent ==
    intent_result # NoneIntent /\ intent_result.intent_name \notin DeterministicIntents

\* C1: no exception raised during a turn reaches the caller of
\* run_pipeline_async; whichever step raises, the call returns escalated=true
\* and an Interaction with outcome=escalated is logged.
C1_NoExceptionReachesCaller ==
    /\ pc # "escaped"
    /\ (pc = "returned" /\ raised_at # None) =>
          /\ result.escalated
          /\ Len(logged) > 0
          /\ LastLogged.outcome = "escalated"

\* C2: the stages of a run are invoked only in the order classify, route,
\* retrieve, generate, score, each at most once; a stage is invoked only after
\* its predecessor returned a non-failing result; after the run has ended
\* (resolved or escalated) no further stage of that run is invoked.
C2_Order ==
    /\ \A i, j \in DOMAIN invoked :
          i < j => StageIndex(invoked[i]) < StageIndex(invoked[j])
    /\ InSeq("route", invoked) =>
          InSeq("classify", invoked) /\ intent_result # NoneIntent
    /\ InSeq("retrieve", invoked) =>
          InSeq("route", invoked) /\ routing_decision.route = "continue"
    /\ InSeq("generate", invoked) =>
          /\ InSeq("route", invoked) /\ routing_decision.route = "continue"
          /\ InSeq("retrieve", invoked) => retrieval_result.retrieved_chunks > 0
          /\ retrieval_result.success
    /\ InSeq("score", invoked) =>
          InSeq("generate", invoked) /\ response_result # NoResponse

C2_NothingAfterEnd ==
    pc \in {"returned", "escaped"} => (turn' = turn => invoked' = invoked)

C2_StagesInOrder == []C2_Order /\ [][C2_NothingAfterEnd]_vars

C2_Witness ==
    /\ pc = "returned"
    /\ invoked = <<"classify", "route", "retrieve", "generate", "score">>
    /\ ~result.escalated

\* C3: every Interaction handed to log_interaction has a non-empty
\* escalation_reason if its outcome is escalated, and if its outcome is
\* resolved its confidence_score is at or above the configured threshold or
\* its intent is one of greeting, unknown, general_conversation.
C3_LoggedOutcomeInvariant ==
    \A i \in DOMAIN logged :
        /\ logged[i].outcome \in {"escalated", "resolved"}
        /\ logged[i].outcome = "escalated" =>
              logged[i].escalation_reason # NoReason
              /\ Len(logged[i].escalation_reason) > 0
        /\ logged[i].outcome = "resolved" =>
              \/ logged[i].confidence_score >= threshold
              \/ logged[i].intent_name \in DeterministicIntents

C3_Witness ==
    /\ Len(logged) > 0
    /\ LastLogged.outcome = "resolved"
    /\ LastLogged.confidence_score < threshold
    /\ LastLogged.intent_name = "greeting"

\* C4: for an intent outside greeting, unknown, general_conversation a run
\* ends resolved only if the scorer returned meets_threshold=true; when the
\* scorer returns meets_threshold=false the run ends escalated with trigger
\* low_confidence, the logged Interaction carries the actual score, and in
\* banker mode the message shows that score with 2 decimals.
C4_LowConfidenceEscalates ==
    NonDeterministicIntent =>
        /\ (pc = "returned" /\ ~result.escalated) =>
              InSeq("score", invoked) /\ confidence_result.meets_threshold
        /\ (InSeq("score", invoked) /\ ~confidence_result.meets_threshold) =>
              /\ pc = "returned"
              /\ result.escalated
              /\ result.trigger_type = "low_confidence"
              /\ Len(logged) = 1
              /\ LastLogged.outcome = "escalated"
              /\ LastLogged.confidence_score = confidence_result.confidence_score
              /\ LastLogged.step_5_confidence_score = confidence_result.confidence_score
              /\ assistant_mode = "banker" =>
                    /\ result.escalation_message.table = "banker"
                    /\ result.escalation_message.template = "low_confidence"
                    /\ result.escalation_message.confidence_score =
                          Format2(confidence_result.confidence_score)

C4_Witness ==
    /\ NonDeterministicIntent
    /\ assistant_mode = "banker"
    /\ InSeq("score", invoked)
    /\ confidence_result.confidence_score = 674
    /\ result.escalated
    /\ result.escalation_message.confidence_score = 67

\* C5: when the router returns route=escalate the run ends escalated with
\* trigger human_only, retrieval, generation and scoring are never invoked, the
\* escalation_reason contains the intent category, and the logged Interaction
\* has outcome=escalated, step_6_escalation_triggered=true and the classified
\* intent_name, intent_category and classification_reason.
C5_HumanOnlyEscalates ==
    routing_decision.route = "escalate" =>
        /\ pc = "returned"
        /\ result.escalated
        /\ result.trigger_type = "human_only"
        /\ invoked = <<"classify", "route">>
        /\ InSeq(Tok(intent_result.intent_category), result.escalation_reason)
        /\ intent_result.intent_category = "human_only"
        /\ Len(logged) = 1
        /\ LastLogged.outcome = "escalated"
        /\ LastLogged.step_6_escalation_triggered
        /\ LastLogged.escalation_reason = result.escalation_reason
        /\ LastLogged.intent_name = intent_result.intent_name
        /\ LastLogged.intent_category = intent_result.intent_category
        /\ LastLogged.classification_reason = intent_result.classification_reason

C5_Witness ==
    /\ pc = "returned"
    /\ routing_decision.route = "escalate"
    /\ intent_result.intent_name = "fee_inquiry"
    /\ LastLogged.intent_category = "human_only"

\* C6: when classify returns None (query empty after sanitization, invalid
\* mode, judge timeout or error, empty or unparsable judge output) the run
\* ends escalated with trigger insufficient_evidence, no router, retrieval,
\* generator or scorer is invoked, and one Interaction with outcome=escalated
\* and step_1_intent_completed=false is logged.
C6_ClassificationFailureEscalates ==
    (InSeq("classify", invoked) /\ raised_at = None /\ intent_result = NoneIntent) =>
        /\ pc = "returned"
        /\ result.escalated
        /\ result.trigger_type = "insufficient_evidence"
        /\ invoked = <<"classify">>
        /\ Len(logged) = 1
        /\ logged[1].outcome = "escalated"
        /\ ~logged[1].step_1_intent_completed

C6_Witness ==
    /\ pc = "returned"
    /\ raised_at = None
    /\ intent_result = NoneIntent
    /\ user_query # <<>>
    /\ sanitize_user_query(user_query) = <<>>
    /\ assistant_mode \in ValidModes
    /\ result.trigger_type = "insufficient_evidence"

\* C7: for an intent outside greeting, unknown, general_conversation the
\* generator is invoked only with non-empty evidence and the scorer only with
\* a generated response; when retrieval fails or yields no chunks, or generate
\* returns None, the run ends escalated with trigger insufficient_evidence and
\* no later stage is invoked.
C7_EvidenceGates ==
    NonDeterministicIntent =>
        /\ InSeq("generate", invoked) => retrieval_result.retrieved_chunks > 0
        /\ InSeq("score", invoked) => response_result # NoResponse
        /\ (InSeq("retrieve", invoked) /\ raised_at = None
            /\ retrieval_result.retrieved_chunks <= 0) =>
              /\ pc = "returned"
              /\ result.escalated
              /\ result.trigger_type = "insufficient_evidence"
              /\ invoked = <<"classify", "route", "retrieve">>
        /\ (InSeq("generate", invoked) /\ response_result = NoResponse) =>
              /\ pc = "returned"
              /\ result.escalated
              /\ result.trigger_type = "insufficient_evidence"
              /\ invoked = <<"classify", "route", "retrieve", "generate">>

C7_Witness ==
    /\ NonDeterministicIntent
    /\ pc = "returned"
    /\ InSeq("generate", invoked)
    /\ response_result = NoResponse
    /\ result.trigger_type = "insufficient_evidence"

\* C8: for an intent in greeting, unknown, general_conversation that the
\* router lets continue, retrieval and the scorer are never invoked, the
\* confidence is 0.95 with meets_threshold=true, and the run ends resolved
\* unless a step raises.
C8_DeterministicIntentsResolve ==
    (intent_result.intent_name \in DeterministicIntents
     /\ routing_decision.route = "continue") =>
        /\ ~InSeq("retrieve", invoked)
        /\ ~InSeq("score", invoked)
        /\ confidence_result # NoConfidence =>
              /\ confidence_result.confidence_score = BypassConfidence
              /\ confidence_result.meets_threshold
        /\ (pc = "returned" /\ raised_at = None) =>
              /\ ~result.escalated
              /\ confidence_result.confidence_score = BypassConfidence
              /\ result.confidence_score = BypassConfidence
              /\ Len(logged) = 1
              /\ LastLogged.outcome = "resolved"

C8_Witness ==
    /\ pc = "returned"
    /\ intent_result.intent_name = "general_conversation"
    /\ routing_decision.route = "continue"
    /\ threshold > BypassConfidence
    /\ LastLogged.outcome = "resolved"

\* C9: log_interaction returns without waiting for the store insert and its
\* return value is always None, with an event loop running at the call and
\* with none.
C9_ReturnsWithoutWaiting ==
    \A i \in DOMAIN log_calls :
        /\ log_calls[i].returned = None
        /\ log_calls[i].insert_at_return = "pending"

\* C10: for every log_interaction call of a pipeline run the background task
\* performs its store insert and its follow-up handling; seen when the loop
\* that asyncio.run made for the turn has closed.
C10_EveryRunPersisted ==
    (loop = "closed" /\ Len(logged) > 0) =>
        /\ log_task = "done"
        /\ job \in {"inserted", "rejected"}
        /\ job = "inserted" =>
              InSeq(InteractionRow(LastLogged, "task", turn), db_interactions)

\* C11: every run of run_pipeline_async that returns (at a gate, resolved, or
\* through the except clause) has called log_interaction exactly once, and the
\* call is its last action: nothing is logged before the step that returns.
C11_LoggedExactlyOnce ==
    /\ pc = "returned" => Len(logged) = 1 /\ Len(log_calls) = 1
    /\ pc \in {"entry", "services", "classify", "route", "retrieve", "generate", "score"} =>
          Len(logged) = 0 /\ Len(log_calls) = 0

C11_Witness ==
    /\ pc = "returned"
    /\ raised_at = "retrieve"
    /\ Len(logged) = 1
    /\ logged[1].escalation_reason = PipelineErrorReason("boom")

\* C12: at most one Interaction row per turn (per log_interaction call) is ever
\* inserted into the store, also when the first insert times out with its
\* thread still running and the payload is retried from the queue.
C12_AtMostOneRowPerTurn ==
    \A k1, k2 \in DOMAIN db_interactions :
        /\ db_interactions[k1].call = db_interactions[k2].call
        /\ (db_interactions[k1].origin = "sync") = (db_interactions[k2].origin = "sync")
        => k1 = k2

\* The long-lived loop has nothing left to do: every background task has
\* ended, no insert thread runs, the retry queue is empty and the worker idle.
Quiescent ==
    /\ loop = "serving"
    /\ \A i \in DOMAIN bg : bg[i].st = "done" /\ bg[i].thread # "running"
    /\ retry_queue = <<>>
    /\ retry_task.st # "backoff"

\* C13: every stored Interaction with outcome=escalated and a reason, stored by
\* the first attempt or by a retry of the worker, is followed by an insert
\* attempt of an Escalation record carrying its id (seen once the loop is
\* quiescent); no Escalation record exists for an interaction that is not stored.
C13_EscalationFollowsInteraction ==
    /\ Quiescent =>
          \A k \in DOMAIN db_interactions :
              (db_interactions[k].outcome = "escalated"
               /\ bg[db_interactions[k].call].data.escalation_reason # NoReason) =>
                  /\ bg[db_interactions[k].call].escalation_attempted
                  /\ bg[db_interactions[k].call].interaction_id = k
    /\ \A e \in DOMAIN db_escalations :
          /\ db_escalations[e].interaction_id \in DOMAIN db_interactions
          /\ db_interactions[db_escalations[e].interaction_id].outcome = "escalated"

\* C14: every Escalation record sent to the store has a trigger_type of the
\* 11-element enumeration; a type outside it, such as the one derived from a
\* reason that matches no keyword, is stored as human_only.
C14_StoredTriggerInEnum ==
    \A e \in DOMAIN db_escalations :
        db_escalations[e].trigger_type \in ESCALATION_TRIGGERS

\* C15: ConfidenceScorer.score is total: whatever the judge does on its at most
\* three attempts (timeout, exception, no reply, content without a usable
\* confidence, content with one), it returns a result with a confidence score
\* in [0, 1], a boolean meets_threshold, the configured threshold and a
\* reasoning; when no attempt yielded a confidence the score is 0.0 and
\* meets_threshold is false.
ScorerFailureKinds == {"timeout", "exception", "no_response", "unparsable"}
C15_ScoreIsTotal ==
    fn_call.fn = "score" =>
        /\ fn_call.out.confidence_score \in 0..1000
        /\ fn_call.out.meets_threshold \in BOOLEAN
        /\ fn_call.out.threshold_value = threshold
        /\ fn_call.out.reasoning # None
        /\ (\A k \in 1..max_retries : fn_call.judge[k].kind \in ScorerFailureKinds) =>
               fn_call.out.confidence_score = 0 /\ ~fn_call.out.meets_threshold
C15_Witness ==
    /\ fn_call.fn = "score"
    /\ fn_call.judge = <<[kind |-> "timeout", raw |-> 0], [kind |-> "unparsable", raw |-> 0], [kind |-> "exception", raw |-> 0]>>
    /\ fn_call.out = default_low_confidence(threshold, "error")

\* C16: what the chat UI shows for a turn (the escalation_message of an
\* escalated result, the response_text of a resolved one) contains no text of
\* an exception raised by a collaborator.
ShownReason == IF result.escalated THEN result.escalation_message.reason ELSE NoReason
C16_NoErrorTextShown ==
    pc = "returned" => \A i \in DOMAIN ShownReason : ShownReason[i].w \notin ErrTexts

\* C17: for every trigger type and mode handle_escalation returns
\* escalated = true with a message and a non-empty reason; the returned
\* trigger_type is the input when it is one of the 11 kinds and human_only
\* otherwise; a reason the caller supplied is returned unchanged.
C17_HandleEscalationResult ==
    fn_call.fn = "handle_escalation" =>
        /\ fn_call.out.escalated
        /\ fn_call.out.escalation_message.table \in {"customer", "banker"}
        /\ fn_call.out.escalation_message.template \in ESCALATION_TRIGGERS
        /\ fn_call.out.escalation_reason # NoReason
        /\ fn_call.out.trigger_type =
              (IF fn_call.trigger_type \in ESCALATION_TRIGGERS THEN fn_call.trigger_type ELSE "human_only")
        /\ fn_call.escalation_reason # NoReason =>
              fn_call.out.escalation_reason = fn_call.escalation_reason
C17_Witness ==
    /\ fn_call.fn = "handle_escalation"
    /\ fn_call.trigger_type = "pipeline_error"
    /\ fn_call.assistant_mode = "auditor"
    /\ fn_call.escalation_reason = NoReason
    /\ fn_call.out.trigger_type = "human_only"
    /\ fn_call.out.escalation_reason = format_escalation_reason("human_only", fn_call.intent_name, NoScore, threshold)

\* C18: detect_escalation_triggers returns a list without duplicates in which
\* each trigger is present exactly when its rule holds: human_only iff the
\* category is human_only, low_confidence iff a score is given and is strictly
\* below the threshold, insufficient_evidence iff the evidence is empty or
\* missing, repeated_misunderstanding iff at least 2 of the last 3 history
\* entries were escalated, each pattern trigger iff the query matches one of
\* its patterns; conflicting_evidence is never returned.
Detected(t) == InSeq(t, fn_call.out)
EscalatedAmongLastThree ==
    Cardinality({i \in DOMAIN fn_call.interaction_history :
                    i > Len(fn_call.interaction_history) - 3 /\ fn_call.interaction_history[i]})
C18_TriggersMatchRules ==
    fn_call.fn = "detect_escalation_triggers" =>
        /\ \A i, j \in DOMAIN fn_call.out : fn_call.out[i] = fn_call.out[j] => i = j
        /\ \A i \in DOMAIN fn_call.out : fn_call.out[i] \in ESCALATION_TRIGGERS
        /\ Detected("human_only") <=> fn_call.intent_category = "human_only"
        /\ Detected("low_confidence") <=>
              (fn_call.confidence_score # NoScore /\ fn_call.confidence_score < threshold)
        /\ Detected("insufficient_evidence") <=> fn_call.retrieved_chunks \in {Absent, 0}
        /\ Detected("repeated_misunderstanding") <=> EscalatedAmongLastThree >= 2
        /\ Detected("account_specific") <=> MatchesAny(fn_call.user_query, account_patterns)
        /\ Detected("security_fraud") <=> MatchesAny(fn_call.user_query, security_patterns)
        /\ Detected("financial_advice") <=> MatchesAny(fn_call.user_query, advice_patterns)
        /\ Detected("legal_hardship") <=> MatchesAny(fn_call.user_query, hardship_patterns)
        /\ Detected("emotional_distress") <=> MatchesAny(fn_call.user_query, emotional_patterns)
        /\ Detected("explicit_human_request") <=>
              \/ MatchesAny(fn_call.user_query, human_request_patterns)
              \/ \E g \in human_request_gap_patterns :
                    HasPhraseThen(fn_call.user_query, g.phrase, g.word)
        /\ ~Detected("conflicting_evidence")
C18_Witness ==
    /\ fn_call.fn = "detect_escalation_triggers"
    /\ fn_call.interaction_history = <<TRUE, TRUE, FALSE, FALSE>>
    /\ fn_call.user_query = <<"my", "account">>
    /\ fn_call.confidence_score = DefaultThreshold
    /\ fn_call.out = <<"human_only", "account_specific">>

\* C19: the router decides from the category alone and its entry points
\* agree: route is escalate with next_step 6 and skip_to_step 6 for human_only,
\* continue with next_step 3 for automatable and sensitive, escalate with
\* next_step 6 for any other category; should_escalate is true exactly when
\* route escalates, and get_next_step equals route's next_step.
C19_RouterEntryPointsAgree ==
    fn_call.fn = "route" =>
        /\ fn_call.intent_category = "human_only" =>
              fn_call.out = [route |-> "escalate", skip_to_step |-> 6, next_step |-> 6]
        /\ fn_call.intent_category \in {"automatable", "sensitive"} =>
              fn_call.out.route = "continue" /\ fn_call.out.next_step = 3
        /\ fn_call.intent_category \notin INTENT_CATEGORIES =>
              fn_call.out.route = "escalate" /\ fn_call.out.next_step = 6
        /\ fn_call.should_escalate <=> fn_call.out.route = "escalate"
        /\ fn_call.get_next_step = fn_call.out.next_step

\* C20: every confidence the scorer takes from a judge content, through the
\* JSON parse or through the regex fallback, lies in [0, 1]; a raw value above
\* 1 yields exactly 1.0 and a raw value below 0 yields exactly 0.0.
C20_ParsedConfidenceClamped ==
    fn_call.fn = "parse_confidence_response" =>
        /\ fn_call.out # NoScore => fn_call.out \in 0..1000
        /\ fn_call.content.kind \in {"value", "text"} /\ fn_call.content.raw > 1000 =>
              fn_call.out = 1000
        /\ fn_call.content.kind \in {"value", "text"} /\ fn_call.content.raw < 0 =>
              fn_call.out = 0

\* C21: _extract_citations returns one citation per distinct marker number of
\* the response text, in ascending order of the number and each carrying its
\* number: the supplied citation with that number, or the placeholder
\* "Source n" when none was supplied; a repeated marker adds no entry.
MarkersInText ==
    {IntOf(fn_call.response_text[i]) :
        i \in {k \in DOMAIN fn_call.response_text : fn_call.response_text[k] \in MarkerDigits}}
C21_OneCitationPerMarker ==
    fn_call.fn = "extract_citations" =>
        /\ \A i, j \in DOMAIN fn_call.out : i < j => fn_call.out[i].number < fn_call.out[j].number
        /\ {fn_call.out[i].number : i \in DOMAIN fn_call.out} = MarkersInText
        /\ \A i \in DOMAIN fn_call.out :
              \/ InSeq(fn_call.out[i], fn_call.retrieval_citations)
              \/ /\ fn_call.out[i] = SourceN(fn_call.out[i].number)
                 /\ \A k \in DOMAIN fn_call.retrieval_citations :
                       fn_call.retrieval_citations[k].number # fn_call.out[i].number
C21_Witness ==
    /\ fn_call.fn = "extract_citations"
    /\ fn_call.response_text = <<"2", "01", "2">>
    /\ fn_call.retrieval_citations = <<[number |-> 2, source |-> "Fees", url |-> "u1"]>>
    /\ fn_call.out = <<SourceN(1), [number |-> 2, source |-> "Fees", url |-> "u1"]>>

\* C22: an item enters the retry queue with attempt 0 and is re-enqueued with
\* one attempt more after a failed retry, never beyond max_retries; every
\* queued item leaves the queue after finitely many steps.
C22_AttemptsBounded ==
    /\ \A i \in DOMAIN retry_queue : retry_queue[i].attempt \in 0..max_retries
    /\ retry_item # NoItem => retry_item.attempt < max_retries
C22_QueuedItemsLeave ==
    []C22_AttemptsBounded /\ ((retry_queue # <<>>) ~> (retry_queue = <<>>))

\* C23: once the retry worker has been started, in every state in which the
\* retry queue holds an item a live worker exists to dequeue it, also after
\* the event loop in which the worker was started has ended.
WorkerLive == retry_task.st \in {"created", "waiting", "backoff"}
C23_WorkerOutlivesItsLoop ==
    (retry_worker_started /\ retry_queue # <<>>) => WorkerLive

\* C24: at most one retry worker task is ever started for the shared
\* InteractionLogger, however the calls of concurrent turns interleave.
C24_AtMostOneWorker == worker_tasks <= 1

\* C26: with several turns in flight on the shared logger, the processing
\* time of each logged interaction is measured from the start_timer call of
\* that same turn.
C26_TimeMeasuredFromOwnStart ==
    \A s \in 1..MaxSessions :
        sess[s].pc \notin {"idle", "pipeline"} => sess[s].measured_from = sess[s].started_at

\* C25: no run whose query makes detect_escalation_triggers report
\* account_specific, security_fraud, financial_advice, legal_hardship,
\* emotional_distress or explicit_human_request ends with outcome resolved.
PatternTriggers ==
    {"account_specific", "security_fraud", "financial_advice", "legal_hardship",
     "emotional_distress", "explicit_human_request"}
QueryTriggers ==
    {t \in PatternTriggers :
        InSeq(t, detect_escalation_triggers(QueryWords(user_query), None, NoScore, 1, <<>>, threshold))}
C25_DetectedQueriesEscalate ==
    (pc = "returned" /\ QueryTriggers # {}) => result.escalated /\ LastLogged.outcome = "escalated"

\* C27: for every escalation the orchestrator performs at one of its five
\* gates, the trigger_type the logger derives from the logged escalation_reason
\* (the one it puts in the Escalation record) equals the trigger_type passed to
\* handle_escalation and returned to the UI.
C27_StoredTriggerIsGateTrigger ==
    (pc = "returned" /\ raised_at = None /\ result.escalated) =>
        extract_trigger_type(LastLogged.escalation_reason) = result.trigger_type

\* C28: _extract_trigger_type maps a reason text to the trigger of the longest
\* keyword of its lookup table that occurs in the lower-cased text, and to
\* unknown when no keyword occurs.
KeywordLength(keyword) ==
    CASE keyword \in {"financial advice", "misunderstanding"} -> 16
      [] keyword = "insufficient" -> 12
      [] keyword = "conflicting" -> 11
      [] keyword \in {"human_only", "confidence"} -> 10
      [] keyword = "emotional" -> 9
      [] keyword \in {"security", "hardship", "distress", "repeated"} -> 8
      [] keyword = "account" -> 7
      [] keyword \in {"urgent", "advice"} -> 6
      [] keyword \in {"fraud", "legal", "human", "agent"} -> 5
OccurringKeywords(reason) ==
    {k \in DOMAIN trigger_mapping : KeywordInReason(trigger_mapping[k][1], reason)}
LongestKeywordTriggers(reason) ==
    {trigger_mapping[k][2] : k \in
        {k1 \in OccurringKeywords(reason) :
            \A k2 \in OccurringKeywords(reason) :
                KeywordLength(trigger_mapping[k2][1]) <= KeywordLength(trigger_mapping[k1][1])}}
C28_LongestKeywordWins ==
    fn_call.fn = "_extract_trigger_type" =>
        IF OccurringKeywords(fn_call.escalation_reason) = {}
        THEN fn_call.out = "unknown"
        ELSE fn_call.out \in LongestKeywordTriggers(fn_call.escalation_reason)

\* C29: fail-closed asymmetry. When the judge's classification output fails
\* validation, classify returns unknown/human_only and the turn ends escalated
\* at the routing gate with trigger_type human_only, before retrieval or
\* generation; a turn ends resolved with the canned unknown guidance only when
\* the judge itself returned a valid classification with intent unknown and a
\* category that continues.
ValidationFailed == intent_result.classification_reason = "Classification validation failed"
C29_FailClosedAsymmetry ==
    pc = "returned" =>
        /\ ValidationFailed =>
              /\ intent_result.intent_name = "unknown"
              /\ intent_result.intent_category = "human_only"
              /\ result.escalated
              /\ result.trigger_type = "human_only"
              /\ LastLogged.outcome = "escalated"
              /\ ~InSeq("retrieve", invoked)
              /\ ~InSeq("generate", invoked)
        /\ (~result.escalated /\ result.response_text.kind = "guidance") =>
              /\ ~ValidationFailed
              /\ intent_result.intent_name = "unknown"
              /\ intent_result.intent_category \in {"automatable", "sensitive"}
              /\ LastLogged.outcome = "resolved"
C29_Witness ==
    /\ pc = "returned"
    /\ ValidationFailed
    /\ result.escalated
    /\ result.trigger_type = "human_only"
    /\ LastLogged.classification_reason = "Classification validation failed"

\* C30: in every Interaction the orchestrator logs, the step fields mark the
\* stages that completed in that run: step_1_intent_completed iff classify
\* returned a result, step_3_retrieval_performed iff the retrieval service was
\* invoked, step_4_response_generated iff the generator returned a response,
\* step_6_escalation_triggered iff the outcome is escalated.
C30_StepFieldsMarkCompletedStages ==
    (pc = "returned" /\ logged # <<>>) =>
        /\ LastLogged.step_1_intent_completed = (intent_result # NoneIntent)
        /\ LastLogged.step_3_retrieval_performed = InSeq("retrieve", invoked)
        /\ LastLogged.step_4_response_generated = (response_result # NoResponse)
        /\ LastLogged.step_6_escalation_triggered = (LastLogged.outcome = "escalated")

====
